---- MODULE Spec2Model ----
(***************************************************************************)
(* Model of the orchestration code of randomcarbon:                        *)
(*   analysis/generation.py            distribution_density                *)
(*   evolution/conditions/energy.py    SmallEnergyAtoms.satisfied          *)
(*   utils/symmetry.py                 get_subgroup_structure,             *)
(*                                     validate_subgroup, get_subgroups    *)
(* The external collaborators (the evolver, the energy calculator, the     *)
(* symmetry toolkit, the structure matcher, the volumetric writer) are     *)
(* nondeterministic: every answer they can give is drawn from a small set. *)
(* Each procedure has its own record variable and its own specification;   *)
(* the procedures share no state.                                          *)
(***************************************************************************)
EXTENDS Integers, Sequences, FiniteSets, TLC

VARIABLES dd, sea, gss, vs, gs

vars == <<dd, sea, gss, vs, gs>>

\* Python's None, and a value that is not None.
None == [none |-> TRUE]

Some(v) == [some |-> v]

\* The outcome of a call that raises exception e.
Raises(e) == [raises |-> e]

\* A procedure that is not running in the specification at hand.
Idle == [pc |-> "idle"]

(***************************************************************************)
(* analysis/generation.py : distribution_density                           *)
(***************************************************************************)

\* Largest n_generated explored.
MaxN == 3

\* The "current" argument: None or a structure (its sequence of sites).
Currents == {None, Some(<<"a">>)}

\* The "filepath" argument.
Filepaths == {None, Some("CHGCAR")}

\* Structures the evolver can hand back: 1, 2 or 3 sites, a site being its
\* fractional coordinates as an opaque point.
EvolvedStructures == {<<"a">>, <<"a", "b">>, <<"a", "b", "c">>}

\* Exceptions evolver.evolve can raise.
Exceptions == {"ValueError", "KeyboardInterrupt"}

\* What one call evolver.evolve(current) can do: raise, return None, or
\* return a list of zero, one or two structures.
EvolveOutcomes ==
    {[kind |-> "raise", exc |-> e] : e \in Exceptions}
    \cup {[kind |-> "return", structs |-> None]}
    \cup {[kind |-> "return", structs |-> Some(l)] :
            l \in {<<>>} \cup {<<s>> : s \in EvolvedStructures}
                  \cup {<<s, t>> : s, t \in EvolvedStructures}}

\* "not new_s": None and the empty list are falsy.
Falsy(new_s) == new_s = None \/ new_s = Some(<<>>)

\* A handler that lets interrupts through (except Exception:).
CaughtOnlyException(exc) == exc # "KeyboardInterrupt"

\* The bare "except:" of the loop body catches every exception.
Caught(exc) == TRUE

\* A slice that starts one site too early.
NewCoordsOffByOne(s, current) ==
    IF current # None THEN SubSeq(s, Len(current.some), Len(s)) ELSE s

\* s.frac_coords[len(current):] when current is given, s.frac_coords otherwise.
NewCoords(s, current) ==
    IF current # None THEN SubSeq(s, Len(current.some) + 1, Len(s)) ELSE s

\* The two "for s in new_s: fcoords.extend(...)" loops.
RECURSIVE ExtendAll(_, _, _)
ExtendAll(fcoords, new_s, current) ==
    IF new_s = <<>> THEN fcoords
    ELSE ExtendAll(fcoords \o NewCoords(Head(new_s), current), Tail(new_s), current)

dd_Init ==
    dd \in [pc : {"loop"}, n_generated : 0..MaxN, current : Currents,
            filepath : Filepaths, i : {0}, fcoords : {<<>>},
            evolveCalls : {<<>>}, attempts : {<<>>}, log : {<<>>},
            escaped : {FALSE}, writeCalls : {<<>>}, result : {None}]

\* One pass of "for i in range(n_generated)": the try block and its handler.
dd_Attempt ==
    /\ dd.pc = "loop"
    /\ dd.i < dd.n_generated
    /\ \E o \in EvolveOutcomes :
        LET called == [dd EXCEPT !.evolveCalls = Append(@, dd.i),
                                 !.attempts = Append(@, o)]
        IN  IF o.kind = "raise"
            THEN IF Caught(o.exc)
                 THEN dd' = [called EXCEPT !.log = Append(@, <<"error", dd.i>>),
                                           !.i = @ + 1]
                 ELSE dd' = [called EXCEPT !.pc = "raised", !.escaped = TRUE]
            ELSE IF Falsy(o.structs)
                 THEN dd' = [called EXCEPT !.log = Append(@, <<"empty", dd.i>>),
                                           !.i = @ + 1]
                 ELSE dd' = [called EXCEPT
                                !.fcoords = ExtendAll(@, o.structs.some, dd.current),
                                !.i = @ + 1]
    /\ UNCHANGED <<sea, gss, vs, gs>>

\* The code after the loop: reshape, placeholder structure, density,
\* Chgcar, write_file, return.  fcoords[0] raises IndexError on an empty
\* accumulator.  Line 96 calls chgcar.write_file(filepath) with no test of
\* filepath; write_file(None) is a call into the writer whose outcome the
\* repository does not decide: it raises or returns.
dd_Finish ==
    /\ dd.pc = "loop"
    /\ dd.i >= dd.n_generated
    /\ IF dd.fcoords = <<>>
       THEN dd' = [dd EXCEPT !.pc = "raised"]
       ELSE LET chgcar == [structure |-> IF dd.current # None THEN "current"
                                         ELSE "template",
                           trajectory |-> dd.fcoords]
            IN  \/ dd' = [dd EXCEPT !.writeCalls = Append(@, dd.filepath),
                                    !.result = Some(chgcar), !.pc = "done"]
                \/ /\ dd.filepath = None
                   /\ dd' = [dd EXCEPT !.writeCalls = Append(@, dd.filepath),
                                       !.pc = "raised"]
    /\ UNCHANGED <<sea, gss, vs, gs>>

\* Number of sites of the known prefix: len(current), or 0 without one.
PrefixLen(current) == IF current = None THEN 0 ELSE Len(current.some)

\* The sites of s at positions >= p (0-based), in order.
SitesFrom(s, p) ==
    IF Len(s) <= p THEN <<>> ELSE [k \in 1..(Len(s) - p) |-> s[p + k]]

\* The sites a list of returned structures contributes, in order.
RECURSIVE SitesOfList(_, _)
SitesOfList(l, p) ==
    IF l = <<>> THEN <<>> ELSE SitesFrom(Head(l), p) \o SitesOfList(Tail(l), p)

\* An attempt that failed: evolve raised, or returned nothing.
FailedAttempt(o) == o.kind = "raise" \/ Falsy(o.structs)

\* The sites all attempts so far contribute, in order of the attempts.
RECURSIVE SitesOfAttempts(_, _)
SitesOfAttempts(as, p) ==
    IF as = <<>> THEN <<>>
    ELSE (IF FailedAttempt(Head(as)) THEN <<>>
          ELSE SitesOfList(Head(as).structs.some, p))
         \o SitesOfAttempts(Tail(as), p)

\* An attempt that returned exactly one structure with exactly one new atom.
UnitAttempt(o, p) ==
    /\ o.kind = "return"
    /\ ~Falsy(o.structs)
    /\ Len(o.structs.some) = 1
    /\ Len(o.structs.some[1]) = p + 1

NumFailed(as) == Cardinality({k \in 1..Len(as) : FailedAttempt(as[k])})

\* C1: a failed generation attempt never aborts the run.  Whatever attempts
\* raise or return nothing, evolve is invoked once per index 0..N-1 in
\* sequence, and no error of an attempt leaves the loop: the loop is only
\* left after N invocations.
C1_FailedAttemptNeverAborts ==
    /\ ~dd.escaped
    /\ dd.evolveCalls = [k \in 1..dd.i |-> k - 1]
    /\ dd.pc \in {"done", "raised"} =>
          /\ dd.i = dd.n_generated
          /\ Len(dd.evolveCalls) = dd.n_generated

\* A run of three attempts that holds a raising attempt and an empty one and
\* still reached the end of the function.
C1_Witness ==
    /\ dd.pc = "done"
    /\ dd.n_generated = 3
    /\ Len(dd.evolveCalls) = 3
    /\ \E k \in 1..Len(dd.attempts) : dd.attempts[k].kind = "raise"
    /\ \E k \in 1..Len(dd.attempts) :
          dd.attempts[k].kind = "return" /\ Falsy(dd.attempts[k].structs)

\* C2: only newly added atoms are accumulated.  The accumulator is, in order
\* of the attempts and of the structures of an attempt, the sites at
\* positions >= len(current) (all sites without a current); and when every
\* attempt so far failed or returned one structure with one new atom, its
\* length is the number of attempts minus the failed ones.
C2_OnlyNewAtomsAccumulated ==
    /\ dd.fcoords = SitesOfAttempts(dd.attempts, PrefixLen(dd.current))
    /\ (\A k \in 1..Len(dd.attempts) :
            FailedAttempt(dd.attempts[k])
            \/ UnitAttempt(dd.attempts[k], PrefixLen(dd.current)))
       => /\ Len(dd.fcoords) = dd.i - NumFailed(dd.attempts)
          /\ (dd.pc \in {"done", "raised"} =>
                Len(dd.fcoords) = dd.n_generated - NumFailed(dd.attempts))

\* A finished run on a given current structure, three attempts, one of them
\* failed, the others adding one atom each.
C2_Witness ==
    /\ dd.pc = "done"
    /\ dd.current # None
    /\ dd.n_generated = 3
    /\ NumFailed(dd.attempts) = 1
    /\ \A k \in 1..3 : FailedAttempt(dd.attempts[k])
                       \/ UnitAttempt(dd.attempts[k], PrefixLen(dd.current))
    /\ Len(dd.fcoords) = 2

\* C3: the artifact is written only when a path is given.  With coordinates
\* collected and filepath None no call to the writer is made, and the
\* artifact is returned with or without a path.
C3_WriteOnlyWhenPathGiven ==
    (dd.i = dd.n_generated /\ dd.fcoords # <<>> /\ dd.pc \in {"done", "raised"})
    => /\ dd.pc = "done"
       /\ dd.result # None
       /\ dd.writeCalls = (IF dd.filepath = None THEN <<>> ELSE <<dd.filepath>>)


InitDensity == dd_Init /\ sea = Idle /\ gss = Idle /\ vs = Idle /\ gs = Idle

NextDensity == dd_Attempt \/ dd_Finish

SpecDensity == InitDensity /\ [][NextDensity]_vars

(***************************************************************************)
(* evolution/conditions/energy.py : SmallEnergyAtoms.satisfied             *)
(* Energies per atom are in tenths of the energy unit: -15 is -1.5.        *)
(***************************************************************************)

\* Energies a structure can carry or the calculator can return.
Energies == {-20, -18, -15, -13, -1, 0}

\* Numbers of sites of the structure.
SiteCounts == {50, 100, 140, 150, 200, 250}

\* Keys and values of the criteria dictionary.
NThresholds == {100, 200}

EThresholds == {-15, -20}

\* The criteria dictionary as the sequence of its items in iteration
\* order: at most two items, the keys distinct.
CriteriaTables ==
    {<<>>}
    \cup {<<[n |-> n, e |-> e]>> : n \in NThresholds, e \in EThresholds}
    \cup {l \in {<<[n |-> n1, e |-> e1], [n |-> n2, e |-> e2]>> :
                     n1 \in NThresholds, n2 \in NThresholds,
                     e1 \in EThresholds, e2 \in EThresholds} :
            l[1].n # l[2].n}

\* get_property(structure, "energy"): the cached property, or None.
get_property(structure) == structure.energy

\* get_energy(..., set_in_structure=True): the structure with the computed
\* energy cached on it.
get_energy(structure, computed) == [structure EXCEPT !.energy = Some(computed)]

\* "if not e": None is falsy, and so is a cached energy of 0.
NeedsEnergy(e) == e = None \/ e = Some(0)

\* A comparison that is not strict on the number of sites.
EntryMatchesLoose(nsites, e, n_threshold, e_threshold) ==
    nsites >= n_threshold /\ e > e_threshold

\* Line 40: nsites > n_threshold and e > e_threshold.
EntryMatches(nsites, e, n_threshold, e_threshold) ==
    nsites > n_threshold /\ e > e_threshold

\* The for loop over self.criteria.items() with its early return, and the
\* return after it.
RECURSIVE CheckCriteria(_, _, _)
CheckCriteria(items, nsites, e) ==
    IF items = <<>>
    THEN [ok |-> FALSE, reason |-> "SmallEnergyAtoms. no condition satisfied"]
    ELSE IF EntryMatches(nsites, e, Head(items).n, Head(items).e)
         THEN [ok |-> TRUE, reason |-> "SmallEnergyAtoms. nsites, energy"]
         ELSE CheckCriteria(Tail(items), nsites, e)

sea_Init ==
    \E s \in [nsites : SiteCounts,
              energy : {None} \cup {Some(e) : e \in Energies}] :
        sea \in [pc : {"call"}, criteria : CriteriaTables, structure : {s},
                 cached0 : {s.energy}, e : {None}, calcCalls : {0},
                 result : {None}]

\* One call of satisfied(structure).
sea_Satisfied ==
    /\ sea.pc = "call"
    /\ \E computed \in Energies :
        LET cached == get_property(sea.structure)
            need == NeedsEnergy(cached)
            s1 == IF need THEN get_energy(sea.structure, computed)
                  ELSE sea.structure
            e == IF need THEN computed ELSE cached.some
        IN  sea' = [sea EXCEPT
                      !.pc = "done",
                      !.structure = s1,
                      !.e = Some(e),
                      !.calcCalls = IF need THEN @ + 1 ELSE @,
                      !.result = Some(CheckCriteria(sea.criteria,
                                                    sea.structure.nsites, e))]
    /\ UNCHANGED <<dd, gss, vs, gs>>

\* C4: satisfied is True exactly when some entry of the table has
\* nsites > n_threshold and energy > e_threshold, both strict, whatever the
\* order of the entries; the result carries a non-empty reason in every case.
C4_SatisfiedIffSomeEntryExceeded ==
    sea.pc = "done" =>
        LET r == sea.result.some
            nsites == sea.structure.nsites
            energy == sea.structure.energy.some
        IN  /\ r.ok \in BOOLEAN
            /\ r.ok = (\E k \in 1..Len(sea.criteria) :
                          /\ nsites > sea.criteria[k].n
                          /\ energy > sea.criteria[k].e)
            /\ r.reason # ""
            /\ ({sea.criteria[k] : k \in 1..Len(sea.criteria)}
                  = {[n |-> 100, e |-> -15], [n |-> 200, e |-> -20]}
                => /\ (nsites = 140 /\ energy = -13 => r.ok)
                   /\ (nsites = 50 /\ energy = -1 => ~r.ok)
                   /\ (nsites = 150 /\ energy = -18 => ~r.ok))

\* The docstring's table, whose second entry is the one that matches:
\* 250 sites at -1.8 exceed (200, -2.0) but not (100, -1.5).
C4_Witness ==
    /\ sea.pc = "done"
    /\ sea.criteria = <<[n |-> 100, e |-> -15], [n |-> 200, e |-> -20]>>
    /\ sea.structure.nsites = 250
    /\ sea.structure.energy = Some(-18)
    /\ sea.result.some.ok

\* C5: the energy calculator is invoked exactly when the structure carries
\* no cached energy.  A cached energy, 0 included, is the one compared, the
\* calculator is not invoked and the cached property is unchanged; without
\* one the calculator is invoked once and its result is cached.
C5_CalculatorIffNoCachedEnergy ==
    sea.pc = "done" =>
        IF sea.cached0 # None
        THEN /\ sea.calcCalls = 0
             /\ sea.e = sea.cached0
             /\ sea.structure.energy = sea.cached0
        ELSE /\ sea.calcCalls = 1
             /\ sea.structure.energy = sea.e

InitEnergy == sea_Init /\ dd = Idle /\ gss = Idle /\ vs = Idle /\ gs = Idle

NextEnergy == sea_Satisfied

SpecEnergy == InitEnergy /\ [][NextEnergy]_vars

(***************************************************************************)
(* utils/symmetry.py : get_subgroup_structure                              *)
(* eps is an integer number of units; a tolerance of the primitive scan is *)
(* the exact fraction num/den of that unit (the product and the quotient   *)
(* of a float by a power of two are exact).                                *)
(***************************************************************************)

\* Largest eps explored.
MaxEps == 2

EpsValues == 0..MaxEps

\* Space group numbers the toolkit can report.
Groups == {1, 2}

\* range(1, 9): the first and the last index of the scan.
ScanFirst == 1

ScanLast == 8

\* The divisor of eps * 2**i / 16.
ToleranceDivisor == 16

\* A scan that halves: eps * 2**(9 - i) / 16.
SymprecSubHalving(eps, i) ==
    [num |-> eps * 2^(ScanLast + 1 - i), den |-> ToleranceDivisor]

\* Line 70: symprec_sub = eps * 2**i / 16.
SymprecSub(eps, i) == [num |-> eps * 2^i, den |-> ToleranceDivisor]

\* Equality and order of two fractions with positive denominators.
FracEq(a, b) == a.num * b.den = b.num * a.den

FracLess(a, b) == a.num * b.den < b.num * a.den

\* The fraction a is k times the fraction b.
FracTimes(a, k, b) == a.num * b.den = k * b.num * a.den

\* Line 51: primitive and eps == 0.0.
InvalidPrimitiveEps(primitive, eps) == primitive /\ eps = 0

\* A detection check that lets a mismatch through.
InitialGroupMismatchIgnored(expected_initial_spgn, number) == FALSE

\* Line 59: expected_initial_spgn is not None and c.group.number differs.
InitialGroupMismatch(expected_initial_spgn, number) ==
    expected_initial_spgn # None /\ number # expected_initial_spgn.some

\* SpacegroupAnalyzer(structure, symprec=...).
SpacegroupAnalyzer(structure, symprec) ==
    [structure |-> structure, symprec |-> symprec]

\* The caller's symprec, and a tolerance of the scan.
CallerSymprec == [of |-> "symprec"]

ScanSymprec(eps, i) == [of |-> "eps", value |-> SymprecSub(eps, i)]

\* spga.get_primitive_standard_structure(): one more reduction applied.
PrimitiveStandard(structure) == [structure EXCEPT !.reductions = @ + 1]

\* Answers of spga.get_space_group_number(): a ValueError, None or a number.
DetectionAnswers == {Raises("ValueError"), None} \cup {Some(g) : g \in Groups}

gss_Init ==
    gss \in [pc : {"start"}, primitive : BOOLEAN, eps : EpsValues,
             spgn : {None} \cup {Some(g) : g \in Groups},
             expected_initial_spgn : {None} \cup {Some(g) : g \in Groups},
             calls : {<<>>}, number : {None}, sub_struct : {None},
             i : {0}, tried : {<<>>}, matched : {<<>>}, spga : {None},
             validated : {None}, error : {None}, result : {None}]

\* Lines 51-52: the precondition on primitive and eps.
gss_Precondition ==
    /\ gss.pc = "start"
    /\ IF InvalidPrimitiveEps(gss.primitive, gss.eps)
       THEN gss' = [gss EXCEPT !.pc = "raised", !.error = Some("ValueError")]
       ELSE gss' = [gss EXCEPT !.pc = "seed"]
    /\ UNCHANGED <<dd, sea, vs, gs>>

\* Lines 57-61: c.from_seed detects the group of the input structure, and
\* the check against expected_initial_spgn.
gss_FromSeed ==
    /\ gss.pc = "seed"
    /\ \E g \in Groups :
        LET seeded == [gss EXCEPT !.calls = Append(@, "from_seed"),
                                  !.number = Some(g)]
        IN  IF InitialGroupMismatch(gss.expected_initial_spgn, g)
            THEN gss' = [seeded EXCEPT !.pc = "raised",
                                       !.error = Some("RuntimeError")]
            ELSE gss' = [seeded EXCEPT !.pc = "derive"]
    /\ UNCHANGED <<dd, sea, vs, gs>>

\* Lines 63-66 and 84-85: c.subgroup(...)[0], which fails or derives a
\* structure of some group, spgn defaulting to that group; without
\* primitive the analyzer is built at the caller's symprec.
gss_Derive ==
    /\ gss.pc = "derive"
    /\ \/ gss' = [gss EXCEPT !.calls = Append(@, "subgroup"),
                             !.pc = "raised", !.error = Some("ToolkitError")]
       \/ \E h \in Groups :
            LET derived == [reductions |-> 0]
                d == [gss EXCEPT
                        !.calls = Append(@, "subgroup"),
                        !.sub_struct = Some(derived),
                        !.spgn = IF @ = None THEN Some(h) ELSE @]
            IN  IF gss.primitive
                THEN gss' = [d EXCEPT !.pc = "scan", !.i = ScanFirst]
                ELSE gss' = [d EXCEPT
                               !.pc = "return",
                               !.spga = Some(SpacegroupAnalyzer(derived,
                                                                CallerSymprec))]
    /\ UNCHANGED <<dd, sea, vs, gs>>

\* Lines 69-83: one pass of "for i in range(1, 9)" with its try block, and
\* the else clause of the loop after the last pass.
gss_ScanStep ==
    /\ gss.pc = "scan"
    /\ LET symprec_sub == ScanSymprec(gss.eps, gss.i)
           s0 == gss.sub_struct.some
           tried == [gss EXCEPT
                       !.tried = Append(@, symprec_sub.value),
                       !.spga = Some(SpacegroupAnalyzer(s0, symprec_sub))]
           \* no break in this pass: the next index, or the loop's else
           Continue(g) ==
               IF g.i < ScanLast THEN [g EXCEPT !.i = @ + 1]
               ELSE [g EXCEPT !.pc = "raised", !.error = Some("RuntimeError")]
       IN  \E tmp_spgn \in DetectionAnswers :
             IF tmp_spgn = Raises("ValueError") \/ tmp_spgn = None
                \/ tmp_spgn # gss.spgn
             THEN gss' = Continue(tried)
             ELSE LET s1 == PrimitiveStandard(s0)
                      reduced == [tried EXCEPT
                                    !.matched = Append(@, gss.i),
                                    !.sub_struct = Some(s1),
                                    !.spga = Some(SpacegroupAnalyzer(s1, symprec_sub))]
                  IN  \E again \in DetectionAnswers :
                        IF again = Raises("ValueError")
                        THEN gss' = Continue(reduced)
                        ELSE IF again # gss.spgn
                        THEN gss' = [reduced EXCEPT
                                       !.pc = "raised",
                                       !.error = Some("AssertionError")]
                        ELSE gss' = [reduced EXCEPT
                                       !.pc = "return",
                                       !.validated =
                                           Some([structure |-> s1,
                                                 symprec |-> symprec_sub,
                                                 number |-> again.some])]
    /\ UNCHANGED <<dd, sea, vs, gs>>

\* Lines 87-89: the operations of the last analyzer and the return.
gss_Return ==
    /\ gss.pc = "return"
    /\ gss' = [gss EXCEPT
                 !.pc = "done",
                 !.result = Some([sub_struct |-> gss.sub_struct.some,
                                  sym_ops |-> [detected_on |-> gss.spga.some]])]
    /\ UNCHANGED <<dd, sea, vs, gs>>

\* Whether operation op of the toolkit has been invoked.
Invoked(op) == \E k \in 1..Len(gss.calls) : gss.calls[k] = op

\* C6: the checks precede the work they guard.  With primitive and eps = 0
\* the call raises the invalid-precondition error with no toolkit operation
\* invoked; with an expected group that differs from the detected one it
\* raises with no derivation invoked; derivation invoked implies both
\* checks passed.
C6_ChecksBeforeWork ==
    /\ (gss.primitive /\ gss.eps = 0) =>
          /\ gss.calls = <<>>
          /\ gss.pc \in {"start", "raised"}
          /\ (gss.pc = "raised" => gss.error = Some("ValueError"))
    /\ (/\ gss.number # None
        /\ gss.expected_initial_spgn # None
        /\ gss.expected_initial_spgn # gss.number) =>
          /\ ~Invoked("subgroup")
          /\ gss.pc = "raised"
          /\ gss.error = Some("RuntimeError")
    /\ Invoked("subgroup") =>
          /\ ~(gss.primitive /\ gss.eps = 0)
          /\ gss.calls[1] = "from_seed"
          /\ gss.expected_initial_spgn \in {None, gss.number}

\* A call rejected for a detected group other than the expected one,
\* after detection and before derivation.
C6_Witness ==
    /\ gss.pc = "raised"
    /\ gss.expected_initial_spgn = Some(1) /\ gss.number = Some(2)
    /\ gss.calls = <<"from_seed">>

\* The other guarded case: a call rejected for primitive with eps = 0.
C6_PreconditionRejected ==
    /\ gss.pc = "raised"
    /\ gss.primitive /\ gss.eps = 0
    /\ gss.error = Some("ValueError")

\* C7: with primitive=True a normal return hands back the primitive
\* standard reduction, applied once, of the derived structure, whose group
\* detected at the successful tolerance is the target, with the operations
\* detected on that structure; and a scan none of whose tolerances detects
\* the target raises instead of returning.
C7_PrimitiveReturn ==
    /\ (gss.pc = "done" /\ gss.primitive) =>
          /\ gss.result.some.sub_struct = [reductions |-> 1]
          /\ gss.validated # None
          /\ gss.validated.some.structure = gss.result.some.sub_struct
          /\ gss.validated.some.number = gss.spgn.some
          /\ gss.validated.some.symprec.value = gss.tried[Len(gss.tried)]
          /\ gss.result.some.sym_ops.detected_on
                = SpacegroupAnalyzer(gss.result.some.sub_struct,
                                     gss.validated.some.symprec)
    /\ (gss.primitive /\ Len(gss.tried) = ScanLast - ScanFirst + 1
        /\ gss.matched = <<>> /\ gss.pc # "scan") =>
          /\ gss.pc = "raised"
          /\ gss.error = Some("RuntimeError")

\* C10 as stated: at most 8 tolerances, each eps times a power of 2 over 16,
\* every tolerance after the first exactly half of the one before it (a
\* strictly decreasing scan), stopping at the first tolerance at which the
\* detected group equals the target.
C10_ScanHalves ==
    /\ Len(gss.tried) <= ScanLast - ScanFirst + 1
    /\ \A k \in 1..Len(gss.tried) :
          \E j \in ScanFirst..ScanLast :
              FracEq(gss.tried[k], [num |-> gss.eps * 2^j, den |-> 16])
    /\ \A k \in 2..Len(gss.tried) :
          /\ FracTimes(gss.tried[k - 1], 2, gss.tried[k])
          /\ FracLess(gss.tried[k], gss.tried[k - 1])
    /\ \A k \in 1..Len(gss.matched) :
          Len(gss.tried) <= gss.matched[k] - ScanFirst + 1

\* C10 as the code has it: at most 8 tolerances, the k-th being
\* eps * 2**k / 16, every tolerance after the first exactly twice the one
\* before it (for eps > 0 a strictly increasing scan, from eps/8 up to
\* 16 eps); the scan ends at the first tolerance at which the target is
\* detected and the detection on the primitive reduction raises no
\* ValueError: with the return when that detection confirms the target,
\* with an AssertionError when it does not; no tolerance is tried after it.
C10_ScanDoubles ==
    /\ Len(gss.tried) <= ScanLast - ScanFirst + 1
    /\ \A k \in 1..Len(gss.tried) :
          FracEq(gss.tried[k], [num |-> gss.eps * 2^k, den |-> 16])
    /\ \A k \in 2..Len(gss.tried) :
          /\ FracTimes(gss.tried[k], 2, gss.tried[k - 1])
          /\ gss.eps > 0 => FracLess(gss.tried[k - 1], gss.tried[k])
    /\ (gss.primitive /\ gss.pc \in {"return", "done"}) =>
          /\ gss.matched # <<>>
          /\ gss.matched[Len(gss.matched)] = gss.i
          /\ Len(gss.tried) = gss.i - ScanFirst + 1
          /\ gss.validated.some.symprec.value = gss.tried[Len(gss.tried)]
    /\ gss.error = Some("AssertionError") =>
          /\ gss.matched # <<>>
          /\ gss.matched[Len(gss.matched)] = gss.i
          /\ Len(gss.tried) = gss.i - ScanFirst + 1
    /\ gss.pc = "scan" => Len(gss.tried) = gss.i - ScanFirst

\* A scan that went through all 8 tolerances, from eps/8 to 16 eps, and
\* returned at the last one.
C10_Witness ==
    /\ gss.pc = "done"
    /\ gss.primitive
    /\ gss.eps = 1
    /\ Len(gss.tried) = 8
    /\ gss.tried[1] = [num |-> 2, den |-> 16]
    /\ gss.tried[8] = [num |-> 256, den |-> 16]
    /\ gss.matched = <<8>>

InitDeriver == gss_Init /\ dd = Idle /\ sea = Idle /\ vs = Idle /\ gs = Idle

NextDeriver ==
    gss_Precondition \/ gss_FromSeed \/ gss_Derive \/ gss_ScanStep \/ gss_Return

SpecDeriver == InitDeriver /\ [][NextDeriver]_vars

(***************************************************************************)
(* utils/symmetry.py : validate_subgroup                                   *)
(***************************************************************************)

\* range(10): the number of sample structures.
NumSamples == 10

\* A loop that draws one sample more.
InRangeOneMore(i) == i <= NumSamples

\* "for i in range(10)": whether index i is still in the range.
InRange(i) == i < NumSamples

\* Answers of get_space_group_number() on a sample: None or a number.
SampleAnswers == {None} \cup {Some(g) : g \in Groups}

vs_Init ==
    vs \in [pc : {"fit"}, sub_spgn : Groups, fits : {None}, i : {0},
            samples : {<<>>}, returned : {FALSE}, result : {None}]

\* Lines 115-117: the structure matcher accepts or rejects the pair.
vs_Fit ==
    /\ vs.pc = "fit"
    /\ \E fit \in BOOLEAN :
        IF ~fit
        THEN vs' = [vs EXCEPT !.fits = Some(fit), !.pc = "done",
                              !.returned = TRUE,
                              !.result = Some("structures do not fit")]
        ELSE vs' = [vs EXCEPT !.fits = Some(fit), !.pc = "sample"]
    /\ UNCHANGED <<dd, sea, gss, gs>>

\* Lines 119-127: one pass of the sampling loop, or its else clause when
\* the range is used up; a match breaks out and returns None.
vs_Sample ==
    /\ vs.pc = "sample"
    /\ IF ~InRange(vs.i)
       THEN vs' = [vs EXCEPT
                     !.pc = "done", !.returned = TRUE,
                     !.result = Some("generated structures do not belong to the spacegroup")]
       ELSE \E number \in SampleAnswers :
              LET drawn == [vs EXCEPT !.samples = Append(@, number)]
              IN  IF number = Some(vs.sub_spgn)
                  THEN vs' = [drawn EXCEPT !.pc = "done", !.returned = TRUE,
                                           !.result = None]
                  ELSE vs' = [drawn EXCEPT !.i = @ + 1]
    /\ UNCHANGED <<dd, sea, gss, gs>>

\* The samples whose detected group is the target.
MatchingSamples == {k \in 1..Len(vs.samples) : vs.samples[k] = Some(vs.sub_spgn)}

C8_FirstMatchAtFour ==
    /\ vs.pc = "done"
    /\ Len(vs.samples) = 4
    /\ MatchingSamples = {4}
    /\ vs.result = None

InitValidator == vs_Init /\ dd = Idle /\ sea = Idle /\ gss = Idle /\ gs = Idle

NextValidator == vs_Fit \/ vs_Sample

SpecValidator == InitValidator /\ [][NextValidator]_vars

(***************************************************************************)
(* utils/symmetry.py : get_subgroups                                       *)
(* The table of maximal subgroups is the toolkit's data.  A "t" subgroup   *)
(* has a smaller point group and a lower number than its group; a "k"      *)
(* subgroup keeps the point group, its number is any number of the same    *)
(* class, the group's own included (an isomorphic subgroup on an enlarged  *)
(* cell).  The recursion is a stack of frames, one per call in progress.   *)
(***************************************************************************)

\* Frames the stack can hold before the interpreter raises RecursionError.
RecursionLimit == 4

\* Space group numbers of the table.
TableGroups == {1, 2, 3}

\* The list a table reports for one group: at most two entries, a number
\* possibly listed twice.
SubgroupLists(S) ==
    {<<>>} \cup {<<a>> : a \in S} \cup {<<a, b>> : a \in S, b \in S}

\* The tables of a relation type.
Tables(group_type) ==
    IF group_type = "t"
    THEN {f \in [TableGroups -> SubgroupLists(TableGroups)] :
            \A g \in TableGroups : \A k \in 1..Len(f[g]) : f[g][k] < g}
    ELSE IF group_type = "k"
    THEN [TableGroups -> SubgroupLists(TableGroups)]
    ELSE {[g \in TableGroups |-> <<>>]}

GroupTypes == {"t", "k", "x"}

\* Lines 147-152: the relation type selects the table.
ValidGroupType(group_type) == group_type \in {"t", "k"}

\* subgroups_dict[sg] = value.
DictSet(d, sg, value) ==
    [k \in DOMAIN d \cup {sg} |-> IF k = sg THEN value ELSE d[k]]

\* The frame of a call that has not run yet.
NewFrame(spgn) == [spgn |-> spgn, st |-> "enter", subgroups |-> <<>>,
                   pos |-> 1, subgroups_dict |-> <<>>]

gs_Init ==
    \E ty \in GroupTypes :
        gs \in [pc : {"run"}, spgn : TableGroups, recursive : BOOLEAN,
                group_type : {ty}, table : Tables(ty),
                stack : {<<>>}, error : {None}, result : {None}]

Top == gs.stack[Len(gs.stack)]

SetTop(frame) == [gs.stack EXCEPT ![Len(gs.stack)] = frame]

\* The call from outside: get_subgroups(spgn, recursive, group_type).
gs_Call ==
    /\ gs.pc = "run"
    /\ gs.stack = <<>>
    /\ gs' = [gs EXCEPT !.stack = <<NewFrame(gs.spgn)>>, !.pc = "running"]
    /\ UNCHANGED <<dd, sea, gss, vs>>

\* Lines 145-155 and 162-163 in the newest frame: the table lookup, the
\* test of group_type, and the flat list returned when not recursive.
gs_Enter ==
    /\ gs.pc = "running"
    /\ Top.st = "enter"
    /\ IF ~ValidGroupType(gs.group_type)
       THEN gs' = [gs EXCEPT !.pc = "raised", !.error = Some("ValueError")]
       ELSE IF gs.recursive
       THEN gs' = [gs EXCEPT !.stack = SetTop([Top EXCEPT
                                         !.st = "loop",
                                         !.subgroups = gs.table[Top.spgn]])]
       ELSE gs' = [gs EXCEPT !.pc = "done", !.stack = <<>>,
                             !.result = Some(gs.table[Top.spgn])]
    /\ UNCHANGED <<dd, sea, gss, vs>>

\* Lines 156-159: one pass of "for sg in subgroups": a number already in
\* the dict is skipped, any other is expanded by a recursive call.
gs_Iterate ==
    /\ gs.pc = "running"
    /\ Top.st = "loop"
    /\ Top.pos <= Len(Top.subgroups)
    /\ LET sg == Top.subgroups[Top.pos]
       IN  IF sg \in DOMAIN Top.subgroups_dict
           THEN gs' = [gs EXCEPT !.stack = SetTop([Top EXCEPT !.pos = @ + 1])]
           ELSE IF Len(gs.stack) >= RecursionLimit
           THEN gs' = [gs EXCEPT !.pc = "raised",
                                 !.error = Some("RecursionError")]
           ELSE gs' = [gs EXCEPT !.stack = Append(@, NewFrame(sg))]
    /\ UNCHANGED <<dd, sea, gss, vs>>

\* Line 161: the loop of the newest frame is over and its dict is returned,
\* to the caller or into the dict of the frame below (line 159).
gs_ReturnDict ==
    /\ gs.pc = "running"
    /\ Top.st = "loop"
    /\ Top.pos > Len(Top.subgroups)
    /\ IF Len(gs.stack) = 1
       THEN gs' = [gs EXCEPT !.pc = "done", !.stack = <<>>,
                             !.result = Some(Top.subgroups_dict)]
       ELSE LET below == gs.stack[Len(gs.stack) - 1]
                sg == below.subgroups[below.pos]
                filled == [below EXCEPT
                             !.subgroups_dict = DictSet(@, sg, Top.subgroups_dict),
                             !.pos = @ + 1]
            IN  gs' = [gs EXCEPT
                         !.stack = Append(SubSeq(@, 1, Len(@) - 2), filled)]
    /\ UNCHANGED <<dd, sea, gss, vs>>

\* The unique elements of the flat list the table reports for group g.
FlatSet(g) == {gs.table[g][k] : k \in 1..Len(gs.table[g])}

\* C9: with recursive=True get_subgroups terminates for every group number
\* and both relation types: no call in progress expands a number that is
\* already being expanded below it (no number among its own descendants),
\* so the recursion never runs into the interpreter's limit; and the
\* mapping returned has exactly the unique elements of the flat list as
\* keys, each mapped to the mapping of that subgroup.
C9_RecursionTerminates ==
    /\ gs.error # Some("RecursionError")
    /\ \A a, b \in 1..Len(gs.stack) :
          a < b => gs.stack[a].spgn # gs.stack[b].spgn
    /\ (gs.pc = "done" /\ gs.recursive) =>
          /\ DOMAIN gs.result.some = FlatSet(gs.spgn)
          /\ \A sg \in DOMAIN gs.result.some :
                DOMAIN gs.result.some[sg] = FlatSet(sg)

\* What holds of every run that returns: the keys are the unique elements
\* of the flat list, at the top and one level down.
Enumerator_KeysOfReturnedMapping ==
    (gs.pc = "done" /\ gs.recursive) =>
        /\ DOMAIN gs.result.some = FlatSet(gs.spgn)
        /\ \A sg \in DOMAIN gs.result.some :
              DOMAIN gs.result.some[sg] = FlatSet(sg)

\* The recursion runs into the limit only on a number that is among its own
\* descendants: some number is on the stack twice.
Enumerator_LimitOnlyOnCycle ==
    gs.error = Some("RecursionError") =>
        \E a, b \in 1..Len(gs.stack) :
            a < b /\ gs.stack[a].spgn = gs.stack[b].spgn


InitEnumerator == gs_Init /\ dd = Idle /\ sea = Idle /\ gss = Idle /\ vs = Idle

NextEnumerator == gs_Call \/ gs_Enter \/ gs_Iterate \/ gs_ReturnDict

SpecEnumerator == InitEnumerator /\ [][NextEnumerator]_vars

====
